---- MODULE Spec2Model ----
(***************************************************************************)
(* Model of the recommendation engine of ai-coach (src/rules.py): the      *)
(* flag evaluator compute_flags, the focus selector _pick_focus, the block *)
(* composer _short_session_blocks and the plan assembler generate_plan.    *)
(* Of src/main.py it models the daily_recovery table with the handlers     *)
(* that write and read today's sleep_min (SpecSleep), and the OAuth state  *)
(* tokens of make_state and validate_state (SpecOAuth).                    *)
(*                                                                         *)
(* Conventions.                                                            *)
(*  - Optional[T] is a sequence of length at most one: None is <<>> and a  *)
(*    present value v is <<v>>.                                            *)
(*  - The physiological readings (Python floats) are drawn from integer    *)
(*    values and the percent delta is kept as an exact fraction            *)
(*    <<num, den>> with den > 0, so the comparison with a threshold is the *)
(*    comparison of the real numbers.  On integer-valued readings the      *)
(*    IEEE-754 evaluation of rules.py agrees with it; on arbitrary doubles *)
(*    it can differ by one rounding step at the threshold itself.          *)
(*  - A Python call either returns a value, [val |-> v], or raises,        *)
(*    [exc |-> e]; an ordering comparison with None raises TypeError.      *)
(*  - The literal strings of rules.py are written in ASCII ("x" for the    *)
(*    multiplication sign, "s" for the double prime, "-" for the dashes).  *)
(***************************************************************************)
EXTENDS Integers, Sequences, FiniteSets, TLC

\* a direct call of rules.py: the invocation, its position, its result
VARIABLES call, pc, ret

\* main.py: the daily_recovery table, the last handler run, the DailySummary
\* it handed to generate_plan and the plan it got; whoop_today is history:
\* the positive sleep value the wearable last supplied for today, if any
VARIABLES db, last_op, daily, plan, whoop_today

\* main.py, OAuth state: the STATE_STORE dict, the clock (epoch seconds) and
\* the request threads inside validate_state; issued and accepted are history:
\* the expiry make_state gave each token and how often validate_state has
\* returned True for it
VARIABLES STATE_STORE, now, thr, issued, accepted

rulesVars == <<call, pc, ret>>

oauthVars == <<STATE_STORE, now, thr, issued, accepted>>

sleepVars == <<db, last_op, daily, plan, whoop_today>>

vars == <<call, pc, ret, db, last_op, daily, plan, whoop_today,
          STATE_STORE, now, thr, issued, accepted>>

(***************************************************************************)
(* Python values                                                           *)
(***************************************************************************)
None == <<>>

Some(v) == <<v>>

Val(x) == x[1]

Return(v) == [val |-> v]

Raise(e) == [exc |-> e]

Raised(r) == "exc" \in DOMAIN r

\* Python truth of an optional number: neither None nor 0
Truthy(x) == x # None /\ Val(x) # 0

\* FloatLt with <= for <
FloatLt_le(x, k) == IF x = None THEN Raise("TypeError") ELSE Return(Val(x)[1] <= k * Val(x)[2])

\* float < int, the float an exact fraction <<num, den>>, den > 0
FloatLt(x, k) == IF x = None THEN Raise("TypeError") ELSE Return(Val(x)[1] < k * Val(x)[2])

\* FloatGt with >= for >
FloatGt_ge(x, k) == IF x = None THEN Raise("TypeError") ELSE Return(Val(x)[1] >= k * Val(x)[2])

\* float > int
FloatGt(x, k) == IF x = None THEN Raise("TypeError") ELSE Return(Val(x)[1] > k * Val(x)[2])

\* NumLt with <= for <
NumLt_le(x, k) == IF x = None THEN Raise("TypeError") ELSE Return(Val(x) <= k)

\* number < int, for the integer-valued fields of the summary
NumLt(x, k) == IF x = None THEN Raise("TypeError") ELSE Return(Val(x) < k)

\* number > int
NumGt(x, k) == IF x = None THEN Raise("TypeError") ELSE Return(Val(x) > k)

\* PyAnd without the short circuit: b is evaluated whatever a is
PyAnd_eager(a, b) == IF Raised(b) THEN b ELSE Return(a /\ b.val)

\* a and b, where b is evaluated only when a is true
PyAnd(a, b) == IF a THEN b ELSE Return(FALSE)

(***************************************************************************)
(* Thresholds and literals of rules.py                                     *)
(***************************************************************************)
HrvDropPct == 10

RhrRisePct == 5

SleepDebtMin == 360

HighLoad == 600

\* Band A with its upper edge left out (time_min < 15)
BandAMax_exclusive == 14

BandAMax == 15

BandBMax == 30

Recovery == "Recovery / Deload"

Speed == "Speed / Strength"

Aerobic == "Aerobic Base / Skills"

SleepMsg == "Aim 7h30-8h sleep tonight; cool room; wind-down 30 min."

ElectrolytesMsg == "+500 ml electrolytes after session"

LutealRecoveryMsg == "Gentle p.m. mobility 10 min; prioritize sleep."

WindowNote == "You're in a high-performance window-OK to push intensity if you feel fresh."

LutealNote == "Late luteal-deload 15-25% and favor low-impact work."

PlanNotes == "Session adapted to time and context; avoid stacking two hard days."

(***************************************************************************)
(* rules.py                                                                *)
(***************************************************************************)
\* (value - baseline) / baseline * 100.0, or None
_percent_delta(value, baseline) ==
    IF value = None \/ baseline = None \/ baseline = Some(0)
    THEN None
    ELSE LET v == Val(value)
             b == Val(baseline)
         IN IF b > 0
            THEN Some(<<(v - b) * 100, b>>)
            ELSE Some(<<(b - v) * 100, 0 - b>>)

compute_flags(s) ==
    LET hrv_delta == _percent_delta(s.hrv_ms, s.avg7_hrv_ms)
        low == PyAnd(hrv_delta # None, FloatLt(hrv_delta, 0 - HrvDropPct))
        rhr_delta == _percent_delta(s.rhr_bpm, s.avg7_rhr_bpm)
        high == PyAnd(rhr_delta # None, FloatGt(rhr_delta, RhrRisePct))
        debt == PyAnd(s.sleep_min # None, NumLt(s.sleep_min, SleepDebtMin))
        load == PyAnd(s.load_7d # None, NumGt(s.load_7d, HighLoad))
    IN IF Raised(low) THEN low
       ELSE IF Raised(high) THEN high
       ELSE IF Raised(debt) THEN debt
       ELSE IF Raised(load) THEN load
       ELSE Return([low_hrv |-> low.val,
                    high_rhr |-> high.val,
                    sleep_debt |-> debt.val,
                    high_load |-> load.val,
                    late_luteal |-> (s.cycle_phase = Some("late_luteal"))])

\* _pick_focus with the sprint window tested before the flags
_pick_focus_phase_first(flags, cycle_phase) ==
    IF cycle_phase \in {Some("follicular"), Some("ovulatory")}
    THEN Speed
    ELSE IF flags.low_hrv \/ flags.high_rhr \/ flags.sleep_debt \/ flags.high_load \/ flags.late_luteal
    THEN Recovery
    ELSE Aerobic

\* _pick_focus with the sprint window reduced to the follicular phase
_pick_focus_follicular_only(flags, cycle_phase) ==
    IF flags.low_hrv \/ flags.high_rhr \/ flags.sleep_debt \/ flags.high_load \/ flags.late_luteal
    THEN Recovery
    ELSE IF cycle_phase = Some("follicular")
    THEN Speed
    ELSE Aerobic

_pick_focus(flags, cycle_phase) ==
    IF flags.low_hrv \/ flags.high_rhr \/ flags.sleep_debt \/ flags.high_load \/ flags.late_luteal
    THEN Recovery
    ELSE IF cycle_phase \in {Some("follicular"), Some("ovulatory")}
    THEN Speed
    ELSE Aerobic

Block(name, duration_min, content) ==
    [name |-> name, duration_min |-> duration_min, content |-> content]

\* reno looking at the first tag only
reno_first_only(context) == Len(context) > 0 /\ context[1] = "renovation"

\* "renovation" in context
reno_of(context) == \E i \in DOMAIN context : context[i] = "renovation"

_short_session_blocks(focus, time_min, context) ==
    LET reno == reno_of(context)
    IN IF time_min <= BandAMax
       THEN IF focus = Recovery
            THEN << Block("Mobility", 8, <<"hips", "t-spine", "calves">>),
                    Block("Core", 5, <<"side plank 2x30s each", "dead-bug 2x8">>) >>
            ELSE IF focus = Speed /\ ~reno
            THEN << Block("Accel", 10, <<"boots: 3x20 m accel (full rec)", "2x20 m strides">>),
                    Block("Core", 5, <<"pallof press 2x8 each">>) >>
            ELSE << Block("Z2 brisk walk", 12, <<"RPE 3-4">>) >>
       ELSE IF time_min <= BandBMax
       THEN IF focus = Recovery
            THEN << Block("Mobility", 8, <<"hips", "t-spine", "calves">>),
                    Block("Technique", 10, <<"wall drill A/B", "4x20 m strides (boots)">>),
                    Block("Core", 5, <<"side plank 3x30s each">>) >>
            ELSE IF focus = Speed /\ ~reno
            THEN << Block("Accel + Plyo", 12, <<"boots: 4x20 m accel", "broad jump 3x4">>),
                    Block("Strength (at-home)", 10, <<"backpack split squat 3x8-e">>),
                    Block("Core", 5, <<"dead-bug 3x8">>) >>
            ELSE << Block("Z2 run / bike", 20, <<"HR < 75% max">>),
                    Block("Mobility", 8, <<"hips", "glutes">>) >>
       ELSE IF focus = Recovery
            THEN << Block("Z2 run / bike", 25, <<"HR < 75% max">>),
                    Block("Mobility", 10, <<"full lower + t-spine">>),
                    Block("Core", 10, <<"side plank 3x30s", "dead-bug 3x10">>) >>
            ELSE IF focus = Speed /\ ~reno
            THEN << Block("Accel + Plyo", 15, <<"boots: 4x20 m accel", "fly 2x20 m", "broad jump 3x3">>),
                    Block("Strength (at-home)", 20, <<"backpack front squat 4x6", "single-leg RDL 3x8-e">>),
                    Block("Core", 8, <<"pallof press 3x8-e">>) >>
            ELSE << Block("Z2 long", 35, <<"HR < 75% max">>),
                    Block("Technique", 10, <<"passing / ball-handling (trainers)">>) >>

\* recovery_list with the electrolytes entry appended before the sleep message
recovery_list_electrolytes_first(flags, s) ==
    <<ElectrolytesMsg>>
        \o (IF flags.sleep_debt THEN <<SleepMsg>> ELSE <<>>)
        \o (IF s.cycle_phase = Some("late_luteal") THEN <<LutealRecoveryMsg>> ELSE <<>>)

\* the recovery list of generate_plan
recovery_list(flags, s) ==
    (IF flags.sleep_debt THEN <<SleepMsg>> ELSE <<>>)
        \o <<ElectrolytesMsg>>
        \o (IF s.cycle_phase = Some("late_luteal") THEN <<LutealRecoveryMsg>> ELSE <<>>)

\* cycle_note_of without the late_luteal branch
cycle_note_of_no_luteal(s) ==
    IF s.cycle_phase \in {Some("follicular"), Some("ovulatory")}
    THEN Some(WindowNote)
    ELSE None

\* the cycle note of generate_plan
cycle_note_of(s) ==
    IF s.cycle_phase \in {Some("follicular"), Some("ovulatory")}
    THEN Some(WindowNote)
    ELSE IF s.cycle_phase = Some("late_luteal")
    THEN Some(LutealNote)
    ELSE None

generate_plan(s) ==
    LET rf == compute_flags(s)
    IN IF Raised(rf) THEN rf
       ELSE LET flags == rf.val
                focus == _pick_focus(flags, s.cycle_phase)
                blocks == _short_session_blocks(focus, s.time_min, s.context)
            IN Return([day_focus |-> focus,
                       sessions |-> blocks,
                       recovery |-> recovery_list(flags, s),
                       flags |-> flags,
                       cycle_note |-> cycle_note_of(s),
                       notes |-> PlanNotes])

(***************************************************************************)
(* Inputs                                                                  *)
(***************************************************************************)
\* the 7-day baseline the readings are compared with
Baseline == 20

\* largest HRV reading; 18 is exactly 10% below a baseline of 20
MaxHrv == 19

\* largest RHR reading; 21 is exactly 5% above a baseline of 20
MaxRhr == 22

\* largest time_min of a direct call of the block composer
MaxTime == 61

Opt(S) == {None} \cup {Some(v) : v \in S}

\* the five documented phases, and a string that is none of them
Phases == {"follicular", "ovulatory", "early_luteal", "late_luteal", "menstruation", "other"}

Contexts == {<<>>, <<"renovation">>, <<"holiday">>, <<"holiday", "renovation">>}

Focuses == {Recovery, Speed, Aerobic}

Times == (0 - 2) .. MaxTime

PlanTimes == {10, 15, 16, 30, 45}

Summaries ==
    [date : {"2025-01-01"},
     hrv_ms : Opt(17 .. MaxHrv),
     rhr_bpm : Opt(20 .. MaxRhr),
     sleep_min : Opt({SleepDebtMin - 1, SleepDebtMin}),
     temp_delta : Opt({0}),
     load_7d : Opt({HighLoad, HighLoad + 1}),
     avg7_hrv_ms : Opt({0, Baseline}),
     avg7_rhr_bpm : Opt({0, Baseline}),
     cycle_phase : Opt(Phases),
     context : Contexts,
     time_min : PlanTimes]

PlanCalls == [fn : {"generate_plan"}, s : Summaries]

BlockCalls == [fn : {"_short_session_blocks"}, focus : Focuses, time_min : Times, context : Contexts]

(***************************************************************************)
(* main.py: the OAuth state tokens.  whoop_callback is a plain def, which  *)
(* FastAPI runs on a thread pool, so two callbacks can be inside           *)
(* validate_state at once; a thread can be switched out between the        *)
(* dict's get, the clock comparison and the dict's pop.                    *)
(***************************************************************************)
\* lifetime of a state token, seconds
TTL == 600

\* number of tokens make_state can issue
NumTokens == 2

\* last clock value
MaxNow == 1800

\* secrets.token_urlsafe(16) values, each drawn once
Tokens == 1 .. NumTokens

\* a state parameter make_state never returned
Forged == 0

\* the threads serving GET /auth/whoop/callback
Callers == {"c1", "c2"}

ThreadIdle == [pc |-> "idle", s |-> None, exp |-> None, at |-> None, result |-> None]

\* STATE_STORE[s] = e
StorePut(store, s, e) == [k \in DOMAIN store \cup {s} |-> IF k = s THEN e ELSE store[k]]

\* STATE_STORE.pop(s, None)
StorePop(store, s) == [k \in DOMAIN store \ {s} |-> store[k]]

\* STATE_STORE.get(s)
StoreGet(store, s) == IF s \in DOMAIN store THEN Some(store[s]) ELSE None

\* make_state, called by whoop_start
make_state(s) ==
    /\ s \notin DOMAIN issued
    /\ STATE_STORE' = StorePut(STATE_STORE, s, now + TTL)
    /\ issued' = StorePut(issued, s, now + TTL)
    /\ UNCHANGED <<now, thr, accepted>>

\* validate_state: exp = STATE_STORE.get(s); if not exp: return False
validate_state_get(c, s) ==
    LET exp == StoreGet(STATE_STORE, s)
    IN /\ thr[c].pc = "idle"
       /\ thr' = [thr EXCEPT ![c] =
                    IF ~Truthy(exp)
                    THEN [pc |-> "done", s |-> Some(s), exp |-> exp, at |-> None,
                          result |-> Some(FALSE)]
                    ELSE [pc |-> "got", s |-> Some(s), exp |-> exp, at |-> None,
                          result |-> None]]
       /\ UNCHANGED <<STATE_STORE, now, issued, accepted>>

\* validate_state: if time.time() > exp
validate_state_check(c) ==
    /\ thr[c].pc = "got"
    /\ thr' = [thr EXCEPT ![c].pc = "pop", ![c].at = Some(now)]
    /\ UNCHANGED <<STATE_STORE, now, issued, accepted>>

\* validate_state: STATE_STORE.pop(s, None); return False / True
validate_state_pop(c) ==
    LET valid == ~(Val(thr[c].at) > Val(thr[c].exp))
        s == Val(thr[c].s)
    IN /\ thr[c].pc = "pop"
       /\ STATE_STORE' = StorePop(STATE_STORE, s)
       /\ thr' = [thr EXCEPT ![c].pc = "done", ![c].result = Some(valid)]
       /\ accepted' = IF valid THEN [accepted EXCEPT ![s] = @ + 1] ELSE accepted
       /\ UNCHANGED <<now, issued>>

\* whoop_callback answers and its thread is free for the next request
callback_done(c) ==
    /\ thr[c].pc = "done"
    /\ thr' = [thr EXCEPT ![c] = ThreadIdle]
    /\ UNCHANGED <<STATE_STORE, now, issued, accepted>>

\* time passes, half a token lifetime at a time
tick ==
    /\ now < MaxNow
    /\ now' = now + TTL \div 2
    /\ UNCHANGED <<STATE_STORE, thr, issued, accepted>>

\* nothing issued, no callback under way
OAuthIdle ==
    /\ STATE_STORE = <<>>
    /\ now = 0
    /\ thr = [c \in Callers |-> ThreadIdle]
    /\ issued = <<>>
    /\ accepted = [s \in Tokens \cup {Forged} |-> 0]

(***************************************************************************)
(* main.py: the daily_recovery table and the handlers that write and read  *)
(* it.  The table holds the rows of today and of yesterday; no Garmin      *)
(* activity is stored, so the 7-day load is 0.                             *)
(***************************************************************************)
Days == {"today", "yesterday"}

\* DailyRecovery(date=...): every column NULL; cycle_phase is raw["cycle_phase"]
NewRow ==
    [hrv_ms |-> None, rhr_bpm |-> None, sleep_min |-> None, temp_delta |-> None,
     cycle_phase |-> None]

\* the latest recovery record WHOOP returns, when it returns one
WhoopRecords ==
    [hrv_rmssd_milli : Opt({Baseline}),
     resting_heart_rate : {Some(Baseline)},
     skin_temp_celsius : {Some(0)},
     created_at : Days]

\* what extract_sleep_minutes yields from WHOOP's sleep record (0: none found)
WhoopSleep == {0, 420}

\* minutes of a "log sleep" chat command
LogMinutes == {330}

\* payloads of POST /api/trigger
Payloads == {<<>>} \cup {<<[manual_sleep_min |-> 345]>>}

\* the 7-day average of a column over the rows that have it
Avg7(col) ==
    LET have == {d \in Days : db[d] # None /\ Val(db[d])[col] # None}
        total == IF have = {} THEN 0
                 ELSE IF Cardinality(have) = 1
                      THEN Val(Val(db[CHOOSE d \in have : TRUE])[col])
                      ELSE Val(Val(db["today"])[col]) + Val(Val(db["yesterday"])[col])
    IN IF have = {} THEN None ELSE Some(total \div Cardinality(have))

\* garmin_load_7d with no stored activity
garmin_load_7d == Some(0)

\* trigger_plan's choice of sleep_min
trigger_sleep_min(daily_rec, payload) ==
    IF daily_rec # None /\ Truthy(Val(daily_rec).sleep_min) /\ Val(Val(daily_rec).sleep_min) > 0
    THEN Val(daily_rec).sleep_min
    ELSE IF payload # <<>>
    THEN Some(Val(payload).manual_sleep_min)
    ELSE None

\* the "plan" chat command's choice of sleep_min
webhook_sleep_min(daily_rec) ==
    IF daily_rec # None /\ Truthy(Val(daily_rec).sleep_min)
    THEN Val(daily_rec).sleep_min
    ELSE None

\* the DailySummary both plan handlers build
DailySummary(daily_rec, sleep_min, cycle_phase, time_min) ==
    [date |-> "today",
     hrv_ms |-> IF daily_rec # None THEN Val(daily_rec).hrv_ms ELSE None,
     rhr_bpm |-> IF daily_rec # None THEN Val(daily_rec).rhr_bpm ELSE None,
     sleep_min |-> sleep_min,
     temp_delta |-> IF daily_rec # None THEN Val(daily_rec).temp_delta ELSE None,
     load_7d |-> garmin_load_7d,
     avg7_hrv_ms |-> Avg7("hrv_ms"),
     avg7_rhr_bpm |-> Avg7("rhr_bpm"),
     cycle_phase |-> cycle_phase,
     context |-> <<>>,
     time_min |-> time_min]

\* POST /whoop/sync: r0 is the recovery record (or None), sleep the minutes
\* extracted from the sleep record
whoop_sync(r0, sleep) ==
    LET rec_date == IF r0 = None THEN "yesterday" ELSE Val(r0).created_at
        row == [hrv_ms |-> IF r0 = None THEN None ELSE Val(r0).hrv_rmssd_milli,
                rhr_bpm |-> IF r0 = None THEN None ELSE Val(r0).resting_heart_rate,
                sleep_min |-> Some(sleep),
                temp_delta |-> IF r0 = None THEN None ELSE Val(r0).skin_temp_celsius,
                cycle_phase |-> None]
    IN /\ db' = [db EXCEPT ![rec_date] = Some(row)]
       /\ whoop_today' = IF rec_date # "today" THEN whoop_today
                         ELSE IF sleep > 0 THEN Some(sleep) ELSE None
       /\ last_op' = "whoop_sync"
       /\ UNCHANGED <<daily, plan>>

\* POST /telegram/webhook, "log sleep <hours>h"
webhook_log_sleep(minutes) ==
    LET row == IF db["today"] = None THEN NewRow ELSE Val(db["today"])
    IN /\ db' = [db EXCEPT !["today"] = Some([row EXCEPT !.sleep_min = Some(minutes)])]
       /\ last_op' = "log sleep"
       /\ UNCHANGED <<daily, plan, whoop_today>>

\* POST /telegram/webhook, "cycle phase <phase>"
webhook_cycle_phase(phase) ==
    LET row == IF db["today"] = None THEN NewRow ELSE Val(db["today"])
    IN /\ db' = [db EXCEPT !["today"] = Some([row EXCEPT !.cycle_phase = Some(phase)])]
       /\ last_op' = "cycle phase"
       /\ UNCHANGED <<daily, plan, whoop_today>>

\* POST /api/trigger
trigger_plan(payload) ==
    LET daily_rec == db["today"]
        s == DailySummary(daily_rec, trigger_sleep_min(daily_rec, payload), None, 30)
    IN /\ daily' = Some(s)
       /\ plan' = generate_plan(s)
       /\ last_op' = "plan"
       /\ UNCHANGED <<db, whoop_today>>

\* POST /telegram/webhook, "plan" or "summary"
webhook_plan ==
    LET daily_rec == db["today"]
        cycle_phase == IF daily_rec # None THEN Val(daily_rec).cycle_phase ELSE None
        s == DailySummary(daily_rec, webhook_sleep_min(daily_rec), cycle_phase, 30)
    IN /\ daily' = Some(s)
       /\ plan' = generate_plan(s)
       /\ last_op' = "plan"
       /\ UNCHANGED <<db, whoop_today>>

\* no handler of main.py has run
SleepIdle ==
    /\ db = [d \in Days |-> None]
    /\ last_op = "none"
    /\ daily = None
    /\ plan = None
    /\ whoop_today = None

\* no direct call of rules.py is under way
RulesIdle == call = None /\ pc = "idle" /\ ret = None

InitSleep == SleepIdle /\ RulesIdle /\ OAuthIdle

WhoopSync ==
    /\ \E r0 \in Opt(WhoopRecords), sleep \in WhoopSleep : whoop_sync(r0, sleep)
    /\ UNCHANGED rulesVars
    /\ UNCHANGED oauthVars

LogSleep ==
    /\ \E minutes \in LogMinutes : webhook_log_sleep(minutes)
    /\ UNCHANGED rulesVars
    /\ UNCHANGED oauthVars

CyclePhase ==
    /\ \E phase \in {"late_luteal"} : webhook_cycle_phase(phase)
    /\ UNCHANGED rulesVars
    /\ UNCHANGED oauthVars

TriggerPlan ==
    /\ \E payload \in Payloads : trigger_plan(payload)
    /\ UNCHANGED rulesVars
    /\ UNCHANGED oauthVars

WebhookPlan ==
    /\ webhook_plan
    /\ UNCHANGED rulesVars
    /\ UNCHANGED oauthVars

NextSleep == WhoopSync \/ LogSleep \/ CyclePhase \/ TriggerPlan \/ WebhookPlan

SpecSleep == InitSleep /\ [][NextSleep]_vars

(***************************************************************************)
(* The calls                                                               *)
(***************************************************************************)
Init ==
    /\ call \in PlanCalls \cup BlockCalls
    /\ pc = "called"
    /\ ret = None
    /\ SleepIdle
    /\ OAuthIdle

GeneratePlan ==
    /\ pc = "called"
    /\ call.fn = "generate_plan"
    /\ ret' = generate_plan(call.s)
    /\ pc' = "returned"
    /\ UNCHANGED call
    /\ UNCHANGED sleepVars
    /\ UNCHANGED oauthVars

ShortSessionBlocks ==
    /\ pc = "called"
    /\ call.fn = "_short_session_blocks"
    /\ ret' = Return(_short_session_blocks(call.focus, call.time_min, call.context))
    /\ pc' = "returned"
    /\ UNCHANGED call
    /\ UNCHANGED sleepVars
    /\ UNCHANGED oauthVars

Next == GeneratePlan \/ ShortSessionBlocks

Spec == Init /\ [][Next]_vars

(***************************************************************************)
(* The OAuth requests                                                      *)
(***************************************************************************)
InitOAuth == OAuthIdle /\ RulesIdle /\ SleepIdle

MakeState ==
    /\ \E s \in Tokens : make_state(s)
    /\ UNCHANGED <<rulesVars, sleepVars>>

ValidateStateGet ==
    /\ \E c \in Callers, s \in Tokens \cup {Forged} : validate_state_get(c, s)
    /\ UNCHANGED <<rulesVars, sleepVars>>

ValidateStateCheck ==
    /\ \E c \in Callers : validate_state_check(c)
    /\ UNCHANGED <<rulesVars, sleepVars>>

ValidateStatePop ==
    /\ \E c \in Callers : validate_state_pop(c)
    /\ UNCHANGED <<rulesVars, sleepVars>>

CallbackDone ==
    /\ \E c \in Callers : callback_done(c)
    /\ UNCHANGED <<rulesVars, sleepVars>>

Tick ==
    /\ tick
    /\ UNCHANGED <<rulesVars, sleepVars>>

NextOAuth ==
    MakeState \/ ValidateStateGet \/ ValidateStateCheck \/ ValidateStatePop \/ CallbackDone \/ Tick

SpecOAuth == InitOAuth /\ [][NextOAuth]_vars

(***************************************************************************)
(* Properties                                                              *)
(***************************************************************************)
PlanReturned == pc = "returned" /\ call.fn = "generate_plan"

BlocksReturned == pc = "returned" /\ call.fn = "_short_session_blocks"

\* generate_plan returned a plan (it did not raise)
PlanOk == PlanReturned /\ ~Raised(ret)

AnyFlag(f) == f.low_hrv \/ f.high_rhr \/ f.sleep_debt \/ f.high_load \/ f.late_luteal

HasReno(context) == "renovation" \in {context[i] : i \in DOMAIN context}

\* C1: whenever one of the five flags of the returned plan is true, the
\* plan's day_focus is "Recovery / Deload", whatever the cycle phase.
C1_AnyFlagGivesRecovery ==
    PlanReturned =>
        /\ ~Raised(ret)
        /\ AnyFlag(ret.val.flags) => ret.val.day_focus = "Recovery / Deload"

\* a flagged follicular day planned as recovery
C1_Witness ==
    /\ PlanOk
    /\ call.s.cycle_phase = Some("follicular")
    /\ ret.val.flags.low_hrv
    /\ ~ret.val.flags.late_luteal
    /\ ret.val.day_focus = "Recovery / Deload"

\* C2: with all five flags false the focus is "Speed / Strength" exactly for
\* the follicular and ovulatory phases and "Aerobic Base / Skills" for every
\* other phase, the absent one included; the focus is always one of the three
\* categories; a summary with every optional field absent gets the aerobic one.
C2_FocusWithoutFlags ==
    PlanReturned =>
        /\ ~Raised(ret)
        /\ ret.val.day_focus \in {"Recovery / Deload", "Speed / Strength", "Aerobic Base / Skills"}
        /\ ~AnyFlag(ret.val.flags) =>
              /\ ret.val.day_focus = "Speed / Strength"
                    <=> call.s.cycle_phase \in {<<"follicular">>, <<"ovulatory">>}
              /\ ret.val.day_focus = "Aerobic Base / Skills"
                    <=> call.s.cycle_phase \notin {<<"follicular">>, <<"ovulatory">>}
        /\ (/\ call.s.hrv_ms = None /\ call.s.rhr_bpm = None /\ call.s.sleep_min = None
            /\ call.s.temp_delta = None /\ call.s.load_7d = None /\ call.s.avg7_hrv_ms = None
            /\ call.s.avg7_rhr_bpm = None /\ call.s.cycle_phase = None)
              => ret.val.day_focus = "Aerobic Base / Skills"

\* an unflagged ovulatory day planned as speed / strength
C2_Witness ==
    /\ PlanOk
    /\ ~AnyFlag(ret.val.flags)
    /\ call.s.cycle_phase = Some("ovulatory")
    /\ call.s.hrv_ms # None
    /\ call.s.avg7_hrv_ms = Some(Baseline)
    /\ ret.val.day_focus = "Speed / Strength"

\* C3: with "renovation" in context the composer returns for "Speed /
\* Strength" the list it returns for "Aerobic Base / Skills" at the same
\* time_min (at time_min = 20 the Band B default list), and for "Recovery /
\* Deload" the list it returns without "renovation" in context.
C3_RenovationFallback ==
    BlocksReturned =>
        /\ ~Raised(ret)
        /\ (HasReno(call.context) /\ call.focus = "Speed / Strength") =>
              /\ ret.val = _short_session_blocks("Aerobic Base / Skills", call.time_min, call.context)
              /\ call.time_min = 20 =>
                    ret.val = << [name |-> "Z2 run / bike", duration_min |-> 20,
                                  content |-> <<"HR < 75% max">>],
                                 [name |-> "Mobility", duration_min |-> 8,
                                  content |-> <<"hips", "glutes">>] >>
        /\ call.focus = "Recovery / Deload" =>
              ret.val = _short_session_blocks("Recovery / Deload", call.time_min,
                            SelectSeq(call.context, LAMBDA c : c # "renovation"))

\* a speed session of 20 minutes on a renovation day
C3_Witness ==
    /\ BlocksReturned
    /\ call.focus = "Speed / Strength"
    /\ call.context = <<"holiday", "renovation">>
    /\ call.time_min = 20
    /\ Len(ret.val) = 2
    /\ ret.val[1].name = "Z2 run / bike"

\* a time_min inside each band, away from the band edges
BandOf(t) == IF t <= 15 THEN 10 ELSE IF t <= 30 THEN 20 ELSE 45

NamesAndMinutes(blocks) == [i \in DOMAIN blocks |-> <<blocks[i].name, blocks[i].duration_min>>]

\* C4: the composer depends on time_min only through its band (time_min <= 15,
\* 15 < time_min <= 30, time_min > 30, upper edges inclusive, nothing above the
\* third band); for "Aerobic Base / Skills" 45 minutes give "Z2 long" (35) then
\* "Technique" (10), and 10 minutes give the single "Z2 brisk walk" (12).
C4_TimeBands ==
    BlocksReturned =>
        /\ ~Raised(ret)
        /\ ret.val = _short_session_blocks(call.focus, BandOf(call.time_min), call.context)
        /\ call.focus = "Aerobic Base / Skills" =>
              NamesAndMinutes(ret.val) =
                  IF call.time_min <= 15 THEN << <<"Z2 brisk walk", 12>> >>
                  ELSE IF call.time_min <= 30 THEN << <<"Z2 run / bike", 20>>, <<"Mobility", 8>> >>
                  ELSE << <<"Z2 long", 35>>, <<"Technique", 10>> >>

\* an aerobic session at the inclusive upper edge of Band B
C4_Witness ==
    /\ BlocksReturned
    /\ call.focus = "Aerobic Base / Skills"
    /\ call.time_min = 30
    /\ NamesAndMinutes(ret.val) = << <<"Z2 run / bike", 20>>, <<"Mobility", 8>> >>

\* the real number (v - b) / b * 100 is below -10, b # 0
MoreThanTenPctBelow(v, b) == IF b > 0 THEN 10 * v < 9 * b ELSE 10 * v > 9 * b

\* the real number (v - b) / b * 100 is above 5, b # 0
MoreThanFivePctAbove(v, b) == IF b > 0 THEN 20 * v > 21 * b ELSE 20 * v < 21 * b

\* C5: low_hrv is true exactly when hrv_ms and avg7_hrv_ms are present, the
\* baseline is not 0 and the percent delta is strictly below -10; it is false
\* when either is absent, and for a reading exactly 10% below the baseline.
C5_LowHrv ==
    PlanReturned =>
        /\ ~Raised(ret)
        /\ ret.val.flags.low_hrv <=>
              /\ call.s.hrv_ms # None
              /\ call.s.avg7_hrv_ms # None
              /\ Val(call.s.avg7_hrv_ms) # 0
              /\ MoreThanTenPctBelow(Val(call.s.hrv_ms), Val(call.s.avg7_hrv_ms))
        /\ (call.s.hrv_ms = None \/ call.s.avg7_hrv_ms = None) => ~ret.val.flags.low_hrv
        /\ (/\ call.s.hrv_ms # None /\ call.s.avg7_hrv_ms # None
            /\ 10 * Val(call.s.hrv_ms) = 9 * Val(call.s.avg7_hrv_ms))
              => ~ret.val.flags.low_hrv

\* a reading 15% below the baseline sets low_hrv
C5_Witness ==
    /\ PlanOk
    /\ call.s.hrv_ms = Some(17)
    /\ call.s.avg7_hrv_ms = Some(20)
    /\ ret.val.flags.low_hrv

\* C6: high_rhr is true exactly when rhr_bpm and avg7_rhr_bpm are present, the
\* baseline is not 0 and the percent delta strictly exceeds 5; a reading
\* exactly 5% above the baseline gives false.
C6_HighRhr ==
    PlanReturned =>
        /\ ~Raised(ret)
        /\ ret.val.flags.high_rhr <=>
              /\ call.s.rhr_bpm # None
              /\ call.s.avg7_rhr_bpm # None
              /\ Val(call.s.avg7_rhr_bpm) # 0
              /\ MoreThanFivePctAbove(Val(call.s.rhr_bpm), Val(call.s.avg7_rhr_bpm))
        /\ (/\ call.s.rhr_bpm # None /\ call.s.avg7_rhr_bpm # None
            /\ Val(call.s.avg7_rhr_bpm) # 0
            /\ 20 * Val(call.s.rhr_bpm) = 21 * Val(call.s.avg7_rhr_bpm))
              => ~ret.val.flags.high_rhr

\* a reading exactly 5% above the baseline leaves high_rhr false
C6_Witness ==
    /\ PlanOk
    /\ call.s.rhr_bpm = Some(21)
    /\ call.s.avg7_rhr_bpm = Some(20)
    /\ ~ret.val.flags.high_rhr

\* C7: sleep_debt is true exactly when sleep_min is present and below 360;
\* 360 itself and an absent sleep_min give false.
C7_SleepDebt ==
    PlanReturned =>
        /\ ~Raised(ret)
        /\ ret.val.flags.sleep_debt <=> (call.s.sleep_min # None /\ Val(call.s.sleep_min) < 360)
        /\ call.s.sleep_min \in {None, <<360>>} => ~ret.val.flags.sleep_debt

\* 359 minutes of sleep set sleep_debt
C7_Witness ==
    /\ PlanOk
    /\ call.s.sleep_min = Some(359)
    /\ ret.val.flags.sleep_debt

\* C8: the recovery list is the sleep message first iff sleep_debt is set,
\* then the electrolytes entry, then the late-luteal mobility message last iff
\* the phase is late_luteal: 1 to 3 entries, the electrolytes entry once.
C8_RecoveryList ==
    PlanReturned =>
        /\ ~Raised(ret)
        /\ LET r == ret.val.recovery
               debt == ret.val.flags.sleep_debt
               luteal == call.s.cycle_phase = <<"late_luteal">>
               sleepMsg == "Aim 7h30-8h sleep tonight; cool room; wind-down 30 min."
               elecMsg == "+500 ml electrolytes after session"
               lutealMsg == "Gentle p.m. mobility 10 min; prioritize sleep."
           IN /\ Len(r) \in 1 .. 3
              /\ Len(r) = 1 + (IF debt THEN 1 ELSE 0) + (IF luteal THEN 1 ELSE 0)
              /\ Cardinality({i \in DOMAIN r : r[i] = elecMsg}) = 1
              /\ r[1] = sleepMsg <=> debt
              /\ r[Len(r)] = lutealMsg <=> luteal
              /\ r[IF debt THEN 2 ELSE 1] = elecMsg
              /\ \A i \in DOMAIN r : r[i] = sleepMsg => i = 1
              /\ \A i \in DOMAIN r : r[i] = lutealMsg => i = Len(r)

\* a late-luteal day with sleep debt gets all three entries
C8_Witness ==
    /\ PlanOk
    /\ call.s.cycle_phase = Some("late_luteal")
    /\ call.s.sleep_min = Some(359)
    /\ Len(ret.val.recovery) = 3

\* C9: cycle_note is the high-performance-window message exactly for the
\* follicular and ovulatory phases, the late-luteal deload message exactly for
\* late_luteal, and absent for every other phase; a late_luteal day with no
\* other flag has focus "Recovery / Deload" and the late-luteal note.
C9_CycleNote ==
    PlanReturned =>
        /\ ~Raised(ret)
        /\ LET note == ret.val.cycle_note
               phase == call.s.cycle_phase
               f == ret.val.flags
           IN /\ note = <<"You're in a high-performance window-OK to push intensity if you feel fresh.">>
                    <=> phase \in {<<"follicular">>, <<"ovulatory">>}
              /\ note = <<"Late luteal-deload 15-25% and favor low-impact work.">>
                    <=> phase = <<"late_luteal">>
              /\ note = None
                    <=> phase \notin {<<"follicular">>, <<"ovulatory">>, <<"late_luteal">>}
              /\ phase \in {None, <<"early_luteal">>, <<"menstruation">>} => note = None
              /\ (phase = <<"late_luteal">> /\ ~(f.low_hrv \/ f.high_rhr \/ f.sleep_debt \/ f.high_load))
                    => /\ ret.val.day_focus = "Recovery / Deload"
                       /\ note = <<"Late luteal-deload 15-25% and favor low-impact work.">>

\* a late-luteal day on which no reading raises a flag
C9_Witness ==
    /\ PlanOk
    /\ call.s.cycle_phase = Some("late_luteal")
    /\ ~(ret.val.flags.low_hrv \/ ret.val.flags.high_rhr
            \/ ret.val.flags.sleep_debt \/ ret.val.flags.high_load)
    /\ ret.val.day_focus = "Recovery / Deload"
    /\ ret.val.cycle_note # None

AllAbsent(s) ==
    /\ s.hrv_ms = None /\ s.rhr_bpm = None /\ s.temp_delta = None /\ s.sleep_min = None
    /\ s.load_7d = None /\ s.avg7_hrv_ms = None /\ s.avg7_rhr_bpm = None /\ s.cycle_phase = None

\* C10: generate_plan never raises: for every combination of present and
\* absent optional fields it returns a plan with day_focus, sessions, recovery,
\* flags, cycle_note and notes; the flags are booleans and a flag whose operand
\* is absent is false; with every optional field absent and time_min = 10 the
\* focus is "Aerobic Base / Skills" with the single "Z2 brisk walk" (12) block.
C10_Total ==
    PlanReturned =>
        /\ ~Raised(ret)
        /\ DOMAIN ret.val = {"day_focus", "sessions", "recovery", "flags", "cycle_note", "notes"}
        /\ DOMAIN ret.val.flags = {"low_hrv", "high_rhr", "sleep_debt", "high_load", "late_luteal"}
        /\ \A k \in DOMAIN ret.val.flags : ret.val.flags[k] \in BOOLEAN
        /\ (call.s.hrv_ms = None \/ call.s.avg7_hrv_ms = None) => ~ret.val.flags.low_hrv
        /\ (call.s.rhr_bpm = None \/ call.s.avg7_rhr_bpm = None) => ~ret.val.flags.high_rhr
        /\ call.s.sleep_min = None => ~ret.val.flags.sleep_debt
        /\ call.s.load_7d = None => ~ret.val.flags.high_load
        /\ call.s.cycle_phase = None => ~ret.val.flags.late_luteal
        /\ Len(ret.val.sessions) >= 1
        /\ (AllAbsent(call.s) /\ call.s.time_min = 10) =>
              /\ ret.val.day_focus = "Aerobic Base / Skills"
              /\ NamesAndMinutes(ret.val.sessions) = << <<"Z2 brisk walk", 12>> >>

\* the plan of a summary with every optional field absent and 10 minutes
C10_Witness ==
    /\ PlanOk
    /\ AllAbsent(call.s)
    /\ call.s.time_min = 10
    /\ ret.val.day_focus = "Aerobic Base / Skills"
    /\ Len(ret.val.sessions) = 1

\* C11: when a plan request has run and the wearable has supplied a positive
\* sleep value for today, that value is the sleep_min handed to generate_plan;
\* a manually reported value is handed over only when the wearable has
\* supplied none.
C11_WearableBeforeManual ==
    last_op = "plan" =>
        /\ whoop_today # None => Val(daily).sleep_min = whoop_today
        /\ Val(daily).sleep_min \in {<<330>>, <<345>>} => whoop_today = None

\* the sum of duration_min over the first n blocks
RECURSIVE MinutesUpTo(_, _)
MinutesUpTo(blocks, n) ==
    IF n = 0 THEN 0 ELSE MinutesUpTo(blocks, n - 1) + blocks[n].duration_min

TotalMinutes(blocks) == MinutesUpTo(blocks, Len(blocks))

\* C12: the blocks _short_session_blocks returns fit the available time: for
\* every focus, context and time_min the sum of their duration_min is at most
\* time_min.
C12_BlocksFitTime ==
    BlocksReturned => TotalMinutes(ret.val) <= call.time_min

\* C13: a state token is single-use: validate_state returns True for a token at
\* most once, and only for a token make_state issued that had not expired when
\* it was checked; a call that found the token stored has removed it when it
\* returns; a token never issued is rejected.
C13_SingleUse ==
    /\ \A s \in Tokens \cup {Forged} : accepted[s] <= 1
    /\ \A c \in Callers :
          thr[c].pc = "done" =>
              /\ thr[c].result = <<TRUE>> =>
                    /\ Val(thr[c].s) \in DOMAIN issued
                    /\ Val(thr[c].at) <= issued[Val(thr[c].s)]
              /\ thr[c].exp # None => Val(thr[c].s) \notin DOMAIN STATE_STORE
              /\ Val(thr[c].s) \notin DOMAIN issued => thr[c].result = <<FALSE>>

====
